---- MODULE Spec2Model ----
(***************************************************************************)
(* Backup export / import of sentry (src/sentry/runner/commands/backup.py) *)
(* and the comparators exercised by tests/sentry/backup/test_comparators.  *)
(*                                                                         *)
(*   Spec        sort_dependencies: the model registry, the derivation of  *)
(*               the dependency lists and the promotion loop.              *)
(*   SpecActor   sort_dependencies over the schemas of direct references   *)
(*               among Actor, Team and User.                               *)
(***************************************************************************)
EXTENDS Integers, Sequences, FiniteSets, TLC

VARIABLES
    apps,                \* apps.get_app_configs(): sequence of [label, models]
    fields,              \* the relation fields / natural-key dependencies declared
    pc,                  \* position of the running command
    models,              \* sort_dependencies: `models`
    model_dependencies,  \* sort_dependencies: `model_dependencies`
    skipped,             \* sort_dependencies: `skipped`
    model_list,          \* sort_dependencies: `model_list`
    error,               \* the labels formatted into the RuntimeError, if raised
    exclude_option,      \* export: the --exclude option as given
    exclude,             \* export: `exclude`
    include_in_export,   \* model.__include_in_export__ (True when not set)
    proxy,               \* model._meta.proxy
    store,               \* the rows of each model's table, by primary key
    cursor,              \* yield_objects: position in the resolver's list
    document,            \* the instances handed to serialize, in order
    src,                 \* import: the document read, a sequence of entries
    db,                  \* the destination database as committed: rows by model
    txn,                 \* the rows as seen inside the open transaction
    offset,              \* import: position of the deserializer in src
    sequences,           \* the primary-key sequence of each model's table
    exception,           \* the exception import_ ended with, or "none"
    warned,              \* whether the warning of lines 36-40 was written
    was_reset,           \* whether the SQL of line 51 was executed
    created,             \* instances created after the import ended
    db_before,           \* history: db when the import began
    sequences_before,    \* history: sequences when the import began
    cmp,                 \* the comparator: [kind, fields]
    id,                  \* the InstanceID handed to existence and compare
    left,                \* the left snapshot of the instance
    right,               \* the right snapshot of the instance
    findings,            \* what the last existence or compare call returned
    last_call,           \* the operation called last
    called,              \* the operations called so far
    scrubs,              \* how many times scrub was called
    sides_before,        \* history: <<left, right>> as first given
    first_scrub          \* history: the scrub records after the first scrub

resolverVars == <<models, model_dependencies, skipped, model_list, error>>

exportVars == <<exclude_option, exclude, cursor, document>>

registryVars == <<apps, fields, include_in_export, proxy>>

importVars == <<src, db, txn, offset, sequences, exception, warned, was_reset, created,
                db_before, sequences_before>>

cmpVars == <<cmp, id, left, right, findings, last_call, called, scrubs, sides_before,
             first_scrub>>

vars == <<registryVars, store, pc, resolverVars, exportVars, importVars, cmpVars>>

(***************************************************************************)
(* Bounds.                                                                 *)
(***************************************************************************)
MaxFields == 2
MaxExclude == 1
MaxPk == 2
MaxDoc == 2
MaxCreate == 1
MaxScrubs == 2

(***************************************************************************)
(* Generic helpers.                                                        *)
(***************************************************************************)
Range(s) == {s[i] : i \in DOMAIN s}

Reverse(s) == [i \in 1..Len(s) |-> s[Len(s) + 1 - i]]

\* position of x in s (0 when absent)
IndexOf(s, x) == IF \E i \in DOMAIN s : s[i] = x
                 THEN CHOOSE i \in DOMAIN s : s[i] = x /\ \A j \in 1..(i - 1) : s[j] # x
                 ELSE 0

RECURSIVE Permutations_(_)
Permutations_(S) ==
    IF S = {} THEN {<<>>}
    ELSE UNION {{<<x>> \o p : p \in Permutations_(S \ {x})} : x \in S}

RECURSIVE UpTo(_, _)
\* the subsets of S with at most k elements
UpTo(S, k) ==
    IF k = 0 THEN {{}}
    ELSE LET P == UpTo(S, k - 1) IN P \cup {p \cup {x} : p \in P, x \in S}

(***************************************************************************)
(* The model registry.                                                     *)
(***************************************************************************)
EXCLUDED_APPS == {"auth", "contenttypes"}

Actor == "Actor"
Team == "Team"
User == "User"
Permission == "Permission"

SentryModels == {Actor, Team, User}
AuthModels == {Permission}
AllModels == SentryModels \cup AuthModels

\* model._meta.app_label
AppLabel(model) == IF model \in AuthModels THEN "auth" ELSE "sentry"

\* Python's order of the class names (str.__lt__), as ranks
NameRank(model) == IndexOf(<<Actor, Permission, Team, User>>, model)

FieldKinds == {"fk", "m2m", "m2m_through", "natural"}

FieldUniverse ==
    [model : SentryModels, kind : FieldKinds, rel_model : AllModels]

Registries ==
    {<<[label |-> "auth", models |-> <<Permission>>],
       [label |-> "sentry", models |-> p]>> : p \in Permutations_(SentryModels)}

(***************************************************************************)
(* sort_dependencies, lines 66-107: the dependency list of one model.      *)
(***************************************************************************)
\* lines 77-82: natural_key.dependencies
NaturalDeps(model) ==
    {f.rel_model : f \in {g \in fields : g.model = model /\ g.kind = "natural"}}

\* FkDeps without the Actor test of line 92
FkDepsUnsuppressed(model) ==
    {f.rel_model : f \in {g \in fields :
        /\ g.model = model
        /\ g.kind = "fk"
        /\ g.rel_model # model}}

\* lines 86-95: model._meta.fields with a remote model
FkDeps(model) ==
    {f.rel_model : f \in {g \in fields :
        /\ g.model = model
        /\ g.kind = "fk"
        /\ g.rel_model # model
        /\ ~(model = Actor /\ (g.rel_model = Team \/ g.rel_model = User))}}

\* lines 100-106: every ManyToManyField, whatever its through model
ManyToManyDeps(model) ==
    {f.rel_model : f \in {g \in fields :
        /\ g.model = model
        /\ g.kind \in {"m2m", "m2m_through"}
        /\ g.rel_model # model}}

\* the list `deps` appended with the model at line 107; only membership in
\* it is ever read (line 129), so it is kept as a set
DepsOf(model) == NaturalDeps(model) \cup FkDeps(model) \cup ManyToManyDeps(model)

RECURSIVE DiscoverEveryApp(_)
\* Discover without the EXCLUDED_APPS test of line 69
DiscoverEveryApp(cfgs) ==
    IF cfgs = <<>> THEN <<>>
    ELSE Head(cfgs).models \o DiscoverEveryApp(Tail(cfgs))

RECURSIVE Discover(_)
\* lines 68-75: the models of the apps that are not excluded, in discovery order
Discover(cfgs) ==
    IF cfgs = <<>> THEN <<>>
    ELSE IF Head(cfgs).label \in EXCLUDED_APPS THEN Discover(Tail(cfgs))
    ELSE Head(cfgs).models \o Discover(Tail(cfgs))

(***************************************************************************)
(* sort_dependencies, lines 118-145: the promotion loop.                   *)
(***************************************************************************)
\* Candidate with the first test of line 129 inverted
CandidateInverted(d, considered, placed) == d \in considered \/ d \in Range(placed)

\* line 129: d not in models or d in model_list
Candidate(d, considered, placed) == d \notin considered \/ d \in Range(placed)

RECURSIVE InnerLoop(_, _, _, _, _)
\* lines 122-136: pop until the work list is empty
InnerLoop(work, considered, placed, skip, changed) ==
    IF work = <<>> THEN [model_list |-> placed, skipped |-> skip, changed |-> changed]
    ELSE LET top == work[Len(work)]
             rest == SubSeq(work, 1, Len(work) - 1)
             found == \A d \in top.deps : Candidate(d, considered, placed)
         IN IF found
            THEN InnerLoop(rest, considered, Append(placed, top.model), skip, TRUE)
            ELSE InnerLoop(rest, considered, placed, Append(skip, top), changed)

\* SortedByName without the sort of line 142
SortedByNameUnsorted(s) == s

RECURSIVE SortedByName(_)
\* line 142: sorted(skipped, key=lambda obj: obj[0].__name__), a stable sort
SortedByName(s) ==
    IF s = <<>> THEN <<>>
    ELSE LET front == SortedByName(SubSeq(s, 1, Len(s) - 1))
             x == s[Len(s)]
             k == Cardinality({i \in DOMAIN front : NameRank(front[i].model) <= NameRank(x.model)})
         IN SubSeq(front, 1, k) \o <<x>> \o SubSeq(front, k + 1, Len(front))

\* ErrorEntry formatting the dependency list too
ErrorEntryWithDeps(md) ==
    [app_label |-> AppLabel(md.model), object_name |-> md.model, unmet |-> md.deps]

\* line 141: what the message holds for one skipped (model, deps) pair
ErrorEntry(md) == [app_label |-> AppLabel(md.model), object_name |-> md.model]

\* lines 139-143: the entries joined into the message
ErrorMessage(stuck) ==
    LET s == SortedByName(stuck) IN [i \in 1..Len(s) |-> ErrorEntry(s[i])]

(***************************************************************************)
(* Actions of sort_dependencies.                                           *)
(***************************************************************************)
\* lines 66-118; an empty list falls through both loops to line 147
Collect ==
    /\ pc = "collect"
    /\ LET found == Discover(apps)
       IN /\ models' = Range(found)
          /\ model_dependencies' =
                Reverse([i \in 1..Len(found) |-> [model |-> found[i], deps |-> DepsOf(found[i])]])
          /\ pc' = IF found = <<>> THEN "returned" ELSE "sort"
    /\ model_list' = <<>>
    /\ UNCHANGED <<registryVars, store, skipped, error, exportVars, importVars, cmpVars>>

\* lines 119-147: one iteration of the outer loop; it raises (line 138), goes
\* round again (line 145) or, the work list being empty, returns (line 147)
Scan ==
    /\ pc = "sort"
    /\ model_dependencies # <<>>
    /\ LET r == InnerLoop(model_dependencies, models, model_list, <<>>, FALSE)
       IN /\ skipped' = r.skipped
          /\ model_list' = r.model_list
          /\ IF ~r.changed
             THEN /\ pc' = "raised"
                  /\ error' = ErrorMessage(r.skipped)
                  /\ model_dependencies' = <<>>
             ELSE /\ model_dependencies' = r.skipped
                  /\ pc' = IF r.skipped = <<>> THEN "returned" ELSE "sort"
                  /\ UNCHANGED error
    /\ UNCHANGED <<registryVars, store, models, exportVars, importVars, cmpVars>>

ResolverStart ==
    /\ models = {}
    /\ model_dependencies = <<>>
    /\ skipped = <<>>
    /\ model_list = <<>>
    /\ error = <<>>

(***************************************************************************)
(* export, lines 172-204.  Strings are sequences of characters.  The       *)
(* notices of click.echo go to stderr and are left out.                    *)
(***************************************************************************)
UpperCase == <<"A", "C", "E", "M", "O", "R", "S", "T", "U">>
LowerCase == <<"a", "c", "e", "m", "o", "r", "s", "t", "u">>

\* str.lower, one character
LowerChar(c) == IF IndexOf(UpperCase, c) > 0 THEN LowerCase[IndexOf(UpperCase, c)] ELSE c

\* str.lower
Lower(str) == [i \in 1..Len(str) |-> LowerChar(str[i])]

RECURSIVE Split(_, _)
\* str.split(sep)
Split(str, sep) ==
    IF IndexOf(str, sep) = 0 THEN <<str>>
    ELSE <<SubSeq(str, 1, IndexOf(str, sep) - 1)>>
         \o Split(SubSeq(str, IndexOf(str, sep) + 1, Len(str)), sep)

RECURSIVE Join(_, _)
\* sep.join(strs): how an operator writes several names in one option
Join(strs, sep) ==
    IF Len(strs) = 0 THEN <<>>
    ELSE IF Len(strs) = 1 THEN strs[1]
    ELSE strs[1] \o <<sep>> \o Join(Tail(strs), sep)

\* model.__name__
ClassName(model) ==
    CASE model = Actor -> <<"A", "c", "t", "o", "r">>
      [] model = Team -> <<"T", "e", "a", "m">>
      [] model = User -> <<"U", "s", "e", "r">>
      [] OTHER -> <<"P", "e", "r", "m", "i", "s", "s", "i", "o", "n">>

\* lines 175-178
ParseExclude(option) ==
    IF ~option.given THEN <<>> ELSE Split(Lower(option.value), ",")

\* SkipModel comparing the name as written, without .lower()
SkipModelCaseSensitive(model, excluded) ==
    \/ ~include_in_export[model]
    \/ ClassName(model) \in Range(excluded)
    \/ proxy[model]

\* lines 183-187
SkipModel(model, excluded) ==
    \/ ~include_in_export[model]
    \/ Lower(ClassName(model)) \in Range(excluded)
    \/ proxy[model]

RECURSIVE OrderByPkDescending(_)
\* OrderByPk with the order reversed
OrderByPkDescending(rows) ==
    IF rows = {} THEN <<>>
    ELSE LET last == CHOOSE r \in rows : \A q \in rows : q <= r
         IN <<last>> \o OrderByPkDescending(rows \ {last})

RECURSIVE OrderByPk(_)
\* line 192: model._base_manager.order_by(model._meta.pk.name)
OrderByPk(rows) ==
    IF rows = {} THEN <<>>
    ELSE LET first == CHOOSE r \in rows : \A q \in rows : r <= q
         IN <<first>> \o OrderByPk(rows \ {first})

\* line 193: the instances of one model, as the queryset iterates them
Instances(model) ==
    LET pks == OrderByPk(store[model])
    IN [i \in 1..Len(pks) |-> [model |-> model, pk |-> pks[i]]]

\* lines 172-180 and the first advance of yield_objects up to line 182
ExportBegin ==
    /\ pc = "export"
    /\ exclude' = ParseExclude(exclude_option)
    /\ cursor' = 1
    /\ pc' = "collect"
    /\ UNCHANGED <<registryVars, store, resolverVars, exclude_option, document, importVars, cmpVars>>

\* lines 182-193: one iteration over the list sort_dependencies returned
YieldModel ==
    /\ pc = "returned"
    /\ cursor >= 1
    /\ cursor <= Len(model_list)
    /\ document' = IF SkipModel(model_list[cursor], exclude)
                   THEN document
                   ELSE document \o Instances(model_list[cursor])
    /\ cursor' = cursor + 1
    /\ UNCHANGED <<registryVars, store, pc, resolverVars, exclude_option, exclude, importVars, cmpVars>>

\* lines 197-204: the generator is exhausted and serialize returns
ExportEnd ==
    /\ pc = "returned"
    /\ cursor > Len(model_list)
    /\ pc' = "exported"
    /\ UNCHANGED <<registryVars, store, resolverVars, exportVars, importVars, cmpVars>>

(***************************************************************************)
(* import_, lines 22-51.  A row is [pk, slug]; slug stands for a column    *)
(* with a unique constraint, the source of the IntegrityError of a save.   *)
(***************************************************************************)
Registry ==
    <<[label |-> "auth", models |-> <<Permission>>],
      [label |-> "sentry", models |-> <<Actor, Team, User>>]>>

Slugs == {"a", "b"}

\* what the deserializer yields for one object of the document; an entry that
\* is not well formed makes it raise instead
Entries ==
    [model : {User, Permission}, pk : 1..MaxPk, slug : Slugs, well_formed : {TRUE}]
    \cup {[model |-> User, pk |-> 1, slug |-> "a", well_formed |-> FALSE]}

MaxOf(S) == IF S = {} THEN 0 ELSE CHOOSE x \in S : \A y \in S : y <= x

\* line 30, obj.save(): the unique constraint that a row of another key breaks
Violates(rows, entry) ==
    \E r \in rows[entry.model] : r.slug = entry.slug /\ r.pk # entry.pk

\* line 30, obj.save(): insert, or update the row of the same key
Saved(rows, entry) ==
    [rows EXCEPT ![entry.model] =
        {r \in @ : r.pk # entry.pk} \cup {[pk |-> entry.pk, slug |-> entry.slug]}]

\* AtomicExit keeping what was written when the block raised
AtomicExitNoRollback(committed, working, raised) == working

\* line 27, transaction.atomic.__exit__: commit, or roll back when the block raised
AtomicExit(committed, working, raised) == IF raised = "none" THEN working ELSE committed

\* the except clause falling through to line 43 instead of raising
AfterIntegrityErrorSwallowed == "committed"

\* lines 35-41: the warning is written and the error raised again
AfterIntegrityError == "failed"

RECURSIVE EveryModel(_)
\* lines 45-48: sqlsequencereset of every app config, excluded or not
EveryModel(cfgs) ==
    IF cfgs = <<>> THEN {} ELSE Range(Head(cfgs).models) \cup EveryModel(Tail(cfgs))

\* sqlsequencereset: setval to the greatest key of the table
ResetSequences(seqs, rows, cfgs) ==
    [m \in DOMAIN seqs |->
        IF m \in EveryModel(cfgs) THEN MaxOf({r.pk : r \in rows[m]}) ELSE seqs[m]]

\* line 27: the atomic block is entered
ImportBegin ==
    /\ pc = "import"
    /\ txn' = db
    /\ offset' = 1
    /\ pc' = "saving"
    /\ UNCHANGED <<cmpVars, registryVars, store, resolverVars, exportVars, src, db, sequences,
                   exception, warned, was_reset, created, db_before, sequences_before>>

\* lines 28-30: the next object is deserialized and saved
SaveNext ==
    /\ pc = "saving"
    /\ offset <= Len(src)
    /\ LET obj == src[offset]
       IN IF ~obj.well_formed
          THEN \* the deserializer raises; no except clause applies
               /\ exception' = "DeserializationError"
               /\ db' = AtomicExit(db, txn, "DeserializationError")
               /\ txn' = db'
               /\ pc' = "failed"
               /\ UNCHANGED <<offset, warned>>
          ELSE IF AppLabel(obj.model) \in EXCLUDED_APPS
          THEN /\ offset' = offset + 1
               /\ UNCHANGED <<db, txn, exception, warned, pc>>
          ELSE IF Violates(txn, obj)
          THEN /\ exception' = "IntegrityError"
               /\ db' = AtomicExit(db, txn, "IntegrityError")
               /\ txn' = db'
               /\ warned' = TRUE
               /\ pc' = AfterIntegrityError
               /\ UNCHANGED offset
          ELSE /\ txn' = Saved(txn, obj)
               /\ offset' = offset + 1
               /\ UNCHANGED <<db, exception, warned, pc>>
    /\ UNCHANGED <<cmpVars, registryVars, store, resolverVars, exportVars, src, sequences,
                   was_reset, created, db_before, sequences_before>>

\* line 27: the block ends without an exception
Commit ==
    /\ pc = "saving"
    /\ offset > Len(src)
    /\ db' = AtomicExit(db, txn, "none")
    /\ txn' = db'
    /\ pc' = "committed"
    /\ UNCHANGED <<cmpVars, registryVars, store, resolverVars, exportVars, src, offset, sequences,
                   exception, warned, was_reset, created, db_before, sequences_before>>

\* lines 43-51
SequenceReset ==
    /\ pc = "committed"
    /\ sequences' = ResetSequences(sequences, db, apps)
    /\ was_reset' = TRUE
    /\ pc' = "imported"
    /\ UNCHANGED <<cmpVars, registryVars, store, resolverVars, exportVars, src, db, txn, offset,
                   exception, warned, created, db_before, sequences_before>>

\* after the command ended: an instance is created with the next value of
\* its table's sequence; the insert fails when that key is taken
CreateInstance ==
    /\ pc \in {"imported", "failed"}
    /\ Cardinality(created) < MaxCreate
    /\ \E m \in {User, Permission}, slug \in Slugs :
          LET pk == sequences[m] + 1
              taken == \E r \in db[m] : r.pk = pk \/ r.slug = slug
          IN /\ sequences' = [sequences EXCEPT ![m] = pk]
             /\ created' = created \cup {[model |-> m, pk |-> pk, inserted |-> ~taken]}
             /\ db' = IF taken THEN db
                       ELSE [db EXCEPT ![m] = @ \cup {[pk |-> pk, slug |-> slug]}]
             /\ txn' = db'
    /\ UNCHANGED <<cmpVars, registryVars, store, resolverVars, exportVars, src, offset, exception,
                   warned, was_reset, pc, db_before, sequences_before>>

ImportIdle ==
    /\ src = <<>>
    /\ db = [m \in AllModels |-> {}]
    /\ txn = db
    /\ offset = 0
    /\ sequences = [m \in AllModels |-> 0]
    /\ exception = "none"
    /\ warned = FALSE
    /\ was_reset = FALSE
    /\ created = {}
    /\ db_before = db
    /\ sequences_before = sequences

(***************************************************************************)
(* The comparators of sentry.backup.comparators, as the specification and  *)
(* tests/sentry/backup/test_comparators.py describe them.  A snapshot is   *)
(* [model, pk, fields, scrubbed]; fields and scrubbed are functions.       *)
(***************************************************************************)
Alpha == <<"a", "l", "p", "h", "a", "@", "e", "x", "a", "m", "p", "l", "e", ".", "c", "o", "m">>
Alice == <<"a", "l", "i", "c", "e", "@", "t", "e", "s", "t", "i", "n", "g", ".", "c", "o", "m">>
Bravo == <<"b", "r", "a", "v", "o", "@", "e", "x", "a", "m", "p", "l", "e", ".", "c", "o", "m">>
Brian == <<"b", "r", "i", "a", "n", "@", "t", "e", "s", "t", "i", "n", "g", ".", "c", "o", "m">>
Charlie == <<"c", "h", "a", "r", "l", "i", "e", "@", "e", "x", "a", "m", "p", "l", "e", ".", "c", "o", "m">>
HashB == <<"1", "2", "3", "9", "f", "e", "0", "a", "b", "0", "a", "f", "c", "3", "9", "b">>
HashC == <<"1", "2", "4", "9", "f", "e", "0", "a", "b", "0", "a", "f", "c", "3", "9", "c">>
Hash190 == <<"1", "9", "0", "d", "a", "e", "4", "e">>
Hash290 == <<"2", "9", "0", "d", "a", "e", "4", "f">>
Hash1234 == <<"1", "2", "3", "4">>
Date567 == <<"2", "0", "2", "3", "-", "0", "6", "-", "2", "2", "T", "2", "3", ":", "1", "2", ":", "3", "4", ".", "5", "6", "7", "Z">>
Date001 == <<"2", "0", "2", "3", "-", "0", "6", "-", "2", "2", "T", "2", "3", ":", "0", "0", ":", "0", "0", ".", "0", "0", "1", "Z">>
Date123 == <<"2", "0", "2", "3", "-", "0", "6", "-", "2", "2", "T", "2", "3", ":", "0", "0", ":", "0", "0", ".", "1", "2", "3", "Z">>

Ellipsis == <<".", ".", ".">>

EmptyMap == [k \in {} |-> <<>>]

Put(map, k, v) == [x \in DOMAIN map \cup {k} |-> IF x = k THEN v ELSE map[x]]

Comparators ==
    {[kind |-> "DateUpdatedComparator",
      fields |-> <<[name |-> "my_date_field", is_list |-> FALSE]>>],
     [kind |-> "EmailObfuscatingComparator",
      fields |-> <<[name |-> "one_email", is_list |-> FALSE],
                   [name |-> "many_emails", is_list |-> TRUE]>>],
     [kind |-> "HashObfuscatingComparator",
      fields |-> <<[name |-> "one_hash", is_list |-> FALSE],
                   [name |-> "many_hashes", is_list |-> TRUE]>>]}

Obfuscating == {"EmailObfuscatingComparator", "HashObfuscatingComparator"}

\* the key of a scrub record: "<ComparatorKind>::<field>"
ScrubKey(kind, field) == <<kind, "::", field>>

Has(side, field) == field \in DOMAIN side.fields

\* Finding(on, kind, reason); the reason is its sequence of words
Finding(on, kind, reason) == [on |-> on, kind |-> kind, reason |-> reason]

\* MissingSide naming the side that holds the field
MissingSideSwapped(l, r, field) ==
    IF ~Has(l, field) THEN "right" ELSE "left"

\* the side that lacks a field the other side has
MissingSide(l, r, field) ==
    IF ~Has(l, field) THEN "left" ELSE "right"

RECURSIVE ExistenceOf(_, _, _, _, _)
\* existence, over the owned fields from the i-th on
ExistenceOf(c, on, l, r, i) ==
    IF i > Len(c.fields) THEN <<>>
    ELSE LET f == c.fields[i].name
             rest == ExistenceOf(c, on, l, r, i + 1)
         IN IF Has(l, f) = Has(r, f) THEN rest
            ELSE <<Finding(on, c.kind,
                           <<"the", MissingSide(l, r, f), "value", "of", f, "is", "missing">>)>>
                 \o rest

\* existence(id, left, right)
Existence(c, on, l, r) == ExistenceOf(c, on, l, r, 1)

\* the email transform: a...@...le.com
ObfuscateEmail(str) ==
    LET at == IndexOf(str, "@")
        domain == SubSeq(str, at + 1, Len(str))
        kept == IF Len(domain) > 6 THEN SubSeq(domain, Len(domain) - 5, Len(domain)) ELSE domain
    IN <<str[1]>> \o Ellipsis \o <<"@">> \o Ellipsis \o kept

\* the transform of a scalar hash: 123...39b
ObfuscateHash(str) ==
    SubSeq(str, 1, 3) \o Ellipsis \o SubSeq(str, Len(str) - 2, Len(str))

\* the transform of the i-th entry of a hash list: 1...e, then ...
ObfuscateHashEntry(str, i) ==
    IF i = 1 THEN <<str[1]>> \o Ellipsis \o <<str[Len(str)]>> ELSE Ellipsis

\* the obfuscated form of a field's value, always a sequence of strings
Obfuscated(kind, is_list, value) ==
    LET entries == IF is_list THEN value ELSE <<value>>
    IN [i \in 1..Len(entries) |->
          IF kind = "EmailObfuscatingComparator" THEN ObfuscateEmail(entries[i])
          ELSE IF is_list THEN ObfuscateHashEntry(entries[i], i)
          ELSE ObfuscateHash(entries[i])]

\* ScrubEntry adding to what an earlier scrub stored
ScrubEntryAppending(record, key, value) ==
    Put(record, key, IF key \in DOMAIN record THEN record[key] \o value ELSE value)

\* what scrub stores for one field
ScrubEntry(record, key, value) == Put(record, key, value)

RECURSIVE ScrubbedOf(_, _, _)
\* scrub of one side, over the owned fields from the i-th on
ScrubbedOf(c, side, i) ==
    IF i > Len(c.fields) THEN side
    ELSE LET f == c.fields[i]
         IN IF ~Has(side, f.name) THEN ScrubbedOf(c, side, i + 1)
            ELSE ScrubbedOf(c,
                    [side EXCEPT !.scrubbed =
                        ScrubEntry(@, ScrubKey(c.kind, f.name),
                                   Obfuscated(c.kind, f.is_list, side.fields[f.name]))],
                    i + 1)

\* the instant a timestamp denotes: the zone designator and the trailing zeros
\* of the fraction do not count
RECURSIVE StripZeros(_)
StripZeros(str) ==
    IF str # <<>> /\ str[Len(str)] = "0" THEN StripZeros(SubSeq(str, 1, Len(str) - 1)) ELSE str

Instant(str) ==
    StripZeros(IF str[Len(str)] = "Z" THEN SubSeq(str, 1, Len(str) - 1) ELSE str)

RECURSIVE CompareOf(_, _, _, _, _)
\* compare, over the owned fields from the i-th on
CompareOf(c, on, l, r, i) ==
    IF i > Len(c.fields) THEN <<>>
    ELSE LET f == c.fields[i]
             lv == l.fields[f.name]
             rv == r.fields[f.name]
             rest == CompareOf(c, on, l, r, i + 1)
         IN IF c.kind = "DateUpdatedComparator"
            THEN IF Instant(lv) = Instant(rv) THEN rest
                 ELSE <<Finding(on, c.kind, <<"the", "instants", "of", f.name, "differ">>)>> \o rest
            ELSE IF lv = rv THEN rest
                 ELSE <<Finding(on, c.kind,
                                <<"left", f.name, Obfuscated(c.kind, f.is_list, lv),
                                  "right", f.name, Obfuscated(c.kind, f.is_list, rv)>>)>> \o rest

\* compare(id, left, right)
Compare(c, on, l, r) == CompareOf(c, on, l, r, 1)

CallExistence ==
    /\ pc = "compare"
    /\ findings' = Existence(cmp, id, left, right)
    /\ last_call' = "existence"
    /\ called' = called \cup {"existence"}
    /\ UNCHANGED <<registryVars, store, pc, resolverVars, exportVars, importVars,
                   cmp, id, left, right, scrubs, sides_before, first_scrub>>

CallCompare ==
    /\ pc = "compare"
    /\ \A i \in DOMAIN cmp.fields : Has(left, cmp.fields[i].name) /\ Has(right, cmp.fields[i].name)
    /\ findings' = Compare(cmp, id, left, right)
    /\ last_call' = "compare"
    /\ called' = called \cup {"compare"}
    /\ UNCHANGED <<registryVars, store, pc, resolverVars, exportVars, importVars,
                   cmp, id, left, right, scrubs, sides_before, first_scrub>>

\* scrub(left, right) of an obfuscating comparator
CallScrub ==
    /\ pc = "compare"
    /\ cmp.kind \in Obfuscating
    /\ scrubs < MaxScrubs
    /\ left' = ScrubbedOf(cmp, left, 1)
    /\ right' = ScrubbedOf(cmp, right, 1)
    /\ scrubs' = scrubs + 1
    /\ first_scrub' = IF scrubs = 0 THEN <<left'.scrubbed, right'.scrubbed>> ELSE first_scrub
    /\ UNCHANGED <<registryVars, store, pc, resolverVars, exportVars, importVars,
                   cmp, id, findings, last_call, called, sides_before>>

CmpIdle ==
    /\ cmp = [kind |-> "none", fields |-> <<>>]
    /\ id = [model |-> "test", pk |-> 1]
    /\ left = [model |-> "test", pk |-> 1, fields |-> EmptyMap, scrubbed |-> EmptyMap]
    /\ right = left
    /\ findings = <<>>
    /\ last_call = "none"
    /\ called = {}
    /\ scrubs = 0
    /\ sides_before = <<left, right>>
    /\ first_scrub = <<EmptyMap, EmptyMap>>

\* class attributes as declared when nothing overrides them
DefaultFlags ==
    /\ include_in_export = [m \in AllModels |-> TRUE]
    /\ proxy = [m \in AllModels |-> FALSE]

ExportIdle ==
    /\ exclude_option = [given |-> FALSE, value |-> <<>>]
    /\ exclude = <<>>
    /\ cursor = 0
    /\ document = <<>>

Init ==
    /\ apps \in Registries
    /\ fields \in UpTo(FieldUniverse, MaxFields)
    /\ DefaultFlags
    /\ store = [m \in AllModels |-> {}]
    /\ pc = "collect"
    /\ ResolverStart
    /\ ExportIdle
    /\ ImportIdle
    /\ CmpIdle

Next == Collect \/ Scan

Spec == Init /\ [][Next]_vars

(***************************************************************************)
(* SpecExport: the export command over foreign-key schemas of the sentry   *)
(* models, with one model at most departing from the default flags.        *)
(***************************************************************************)
ExportSchemas ==
    UpTo({f \in FieldUniverse :
            f.kind = "fk" /\ f.rel_model \in SentryModels /\ f.rel_model # f.model},
         MaxFields)

\* the names an operator may pass to --exclude
ExcludeNames ==
    {ClassName(m) : m \in SentryModels} \cup {Lower(ClassName(m)) : m \in SentryModels}

RECURSIVE SeqsUpTo(_, _)
\* the sequences over S of length 1..k
SeqsUpTo(S, k) ==
    IF k = 0 THEN {}
    ELSE {<<x>> : x \in S}
         \cup {<<x>> \o t : x \in S, t \in SeqsUpTo(S, k - 1)}

ExcludeOptions ==
    {[given |-> FALSE, value |-> <<>>]}
    \cup {[given |-> TRUE, value |-> Join(names, ",")] : names \in SeqsUpTo(ExcludeNames, MaxExclude)}

InitExport ==
    /\ apps = Registry
    /\ fields \in ExportSchemas
    /\ \E m \in SentryModels, inc \in BOOLEAN, prx \in BOOLEAN :
          /\ include_in_export = [x \in AllModels |-> IF x = m THEN inc ELSE TRUE]
          /\ proxy = [x \in AllModels |-> IF x = m THEN prx ELSE FALSE]
    /\ \E populated \in SUBSET SentryModels :
          store = [m \in AllModels |-> IF m \in populated THEN 1..MaxPk ELSE {}]
    /\ exclude_option \in ExcludeOptions
    /\ exclude = <<>>
    /\ cursor = 0
    /\ document = <<>>
    /\ pc = "export"
    /\ ResolverStart
    /\ ImportIdle
    /\ CmpIdle

NextExport == ExportBegin \/ Collect \/ Scan \/ YieldModel \/ ExportEnd

SpecExport == InitExport /\ [][NextExport]_vars

(***************************************************************************)
(* SpecImport: the import command reading a document of at most MaxDoc     *)
(* entries into a destination that is clean or holds one row.              *)
(***************************************************************************)
RECURSIVE Documents(_)
Documents(n) ==
    IF n = 0 THEN {<<>>}
    ELSE Documents(n - 1) \cup {Append(d, e) : d \in Documents(n - 1), e \in Entries}

Destinations ==
    {[m \in AllModels |-> {}]}
    \cup {[m \in AllModels |-> IF m = row.model THEN {[pk |-> row.pk, slug |-> row.slug]} ELSE {}] :
            row \in [model : {User, Permission}, pk : 1..MaxPk, slug : Slugs]}

InitImport ==
    /\ apps = Registry
    /\ fields = {}
    /\ DefaultFlags
    /\ store = [m \in AllModels |-> {}]
    /\ ResolverStart
    /\ ExportIdle
    /\ src \in Documents(MaxDoc)
    /\ db \in Destinations
    /\ txn = db
    /\ offset = 0
    \* a sequence is at the greatest key, or behind it when rows were loaded
    \* with explicit keys
    /\ sequences \in [AllModels -> 0..MaxPk]
    /\ \A m \in AllModels : sequences[m] \in {0, MaxOf({r.pk : r \in db[m]})}
    /\ exception = "none"
    /\ warned = FALSE
    /\ was_reset = FALSE
    /\ created = {}
    /\ db_before = db
    /\ sequences_before = sequences
    /\ pc = "import"
    /\ CmpIdle

NextImport == ImportBegin \/ SaveNext \/ Commit \/ SequenceReset \/ CreateInstance

SpecImport == InitImport /\ [][NextImport]_vars

(***************************************************************************)
(* SpecActor: sort_dependencies over every schema of direct references     *)
(* (self-references included) among Actor, Team and User, with at most one *)
(* natural-key dependency or multi-valued reference beside them.           *)
(***************************************************************************)
DirectReferences ==
    {f \in FieldUniverse : f.kind = "fk" /\ f.rel_model \in SentryModels}

OtherReferences ==
    {f \in FieldUniverse : f.kind # "fk" /\ f.rel_model \in SentryModels}

ActorSchemas ==
    {direct \cup other :
        direct \in SUBSET DirectReferences,
        other \in {{}} \cup {{f} : f \in OtherReferences}}

InitActor ==
    /\ apps \in Registries
    /\ fields \in ActorSchemas
    /\ DefaultFlags
    /\ store = [m \in AllModels |-> {}]
    /\ pc = "collect"
    /\ ResolverStart
    /\ ExportIdle
    /\ ImportIdle
    /\ CmpIdle

NextActor == Collect \/ Scan

SpecActor == InitActor /\ [][NextActor]_vars

(***************************************************************************)
(* SpecCompare: one comparator applied to a pair of snapshots of one       *)
(* instance, each owned field present or absent on either side.            *)
(***************************************************************************)
\* the values a field takes in the snapshots
ValuesOf(field) ==
    CASE field = "my_date_field" -> {Date567, Date001, Date123}
      [] field = "one_email" -> {Alpha, Alice}
      [] field = "many_emails" -> {<<Bravo, Charlie>>, <<Brian, Charlie>>}
      [] field = "one_hash" -> {HashB, HashC}
      [] field = "many_hashes" -> {<<Hash190, Hash1234>>, <<Hash290, Hash1234>>}

\* the snapshots of instance on for comparator c: every choice of owned
\* fields, beside a field ("name") that no comparator owns
Snapshots(c, on) ==
    LET names == {c.fields[i].name : i \in DOMAIN c.fields}
        payloads == UNION {[present \cup {"name"} ->
                               UNION {ValuesOf(f) : f \in names} \cup {<<"x">>}] :
                           present \in SUBSET names}
    IN {[model |-> on.model, pk |-> on.pk, fields |-> p, scrubbed |-> EmptyMap] :
          p \in {q \in payloads :
                   /\ q["name"] = <<"x">>
                   /\ \A f \in DOMAIN q \ {"name"} : q[f] \in ValuesOf(f)}}

InitCompare ==
    /\ apps = Registry
    /\ fields = {}
    /\ DefaultFlags
    /\ store = [m \in AllModels |-> {}]
    /\ ResolverStart
    /\ ExportIdle
    /\ ImportIdle
    /\ pc = "compare"
    /\ cmp \in Comparators
    /\ id \in [model : {"test"}, pk : 1..MaxPk]
    /\ left \in Snapshots(cmp, id)
    /\ right \in Snapshots(cmp, id)
    /\ findings = <<>>
    /\ last_call = "none"
    /\ called = {}
    /\ scrubs = 0
    /\ sides_before = <<left, right>>
    /\ first_scrub = <<EmptyMap, EmptyMap>>

NextCompare == CallExistence \/ CallCompare \/ CallScrub

SpecCompare == InitCompare /\ [][NextCompare]_vars

(***************************************************************************)
(* Vocabulary of the resolver's properties.                                *)
(***************************************************************************)
\* the considered Models: those of the namespaces that are not excluded
Considered == {m \in AllModels : AppLabel(m) \notin EXCLUDED_APPS}

Position(m) == IndexOf(model_list, m)

Occurrences(s, x) == Cardinality({i \in DOMAIN s : s[i] = x})

\* the derived edges that stay inside the considered set
EdgesOf(a) == DepsOf(a) \cap Considered

RECURSIVE ReachableFrom(_, _)
ReachableFrom(S, n) ==
    IF n = 0 THEN S
    ELSE ReachableFrom(S \cup UNION {EdgesOf(x) : x \in S}, n - 1)

Acyclic ==
    \A m \in Considered : m \notin ReachableFrom(EdgesOf(m), Cardinality(Considered))

\* the dependencies of m in the considered set that are not placed
Unmet(m) == (DepsOf(m) \cap models) \ Range(model_list)

Discovered == Discover(apps)

\* C1: when sort_dependencies returns, every derived edge A->B (B # A, B a
\* considered Model) has B at an earlier position of the returned list than A.
C1_DependenciesFirst ==
    pc = "returned" =>
        \A a \in Considered : \A b \in EdgesOf(a) \ {a} :
            /\ Position(b) > 0
            /\ Position(b) < Position(a)

\* a returned order in which a Model discovered first had to wait for a
\* dependency discovered after it
C1_Witness ==
    /\ pc = "returned"
    /\ \E a \in Considered : \E b \in EdgesOf(a) \ {a} :
          /\ IndexOf(Discovered, a) < IndexOf(Discovered, b)
          /\ Position(b) < Position(a)

\* C2: on an acyclic graph sort_dependencies does not raise, every iteration of
\* its outer loop shortens the work list or ends the call, and the list it
\* returns holds every considered Model exactly once and no other Model.
C2_EveryModelOnce ==
    /\ [](/\ pc = "returned" =>
               \A m \in AllModels :
                   Occurrences(model_list, m) = IF m \in Considered THEN 1 ELSE 0
          /\ Acyclic => pc # "raised")
    /\ [][pc = "sort" =>
             \/ pc' \in {"returned", "raised"}
             \/ Len(model_dependencies') < Len(model_dependencies)]_vars

\* a returned order of a schema with a dependency outside the considered set
\* and a Model promoted only on a later pass
C2_Witness ==
    /\ pc = "returned"
    /\ Acyclic
    /\ \E m \in Considered : DepsOf(m) \ Considered # {}
    /\ \E a \in Considered : \E b \in EdgesOf(a) :
          IndexOf(Discovered, a) < IndexOf(Discovered, b)

\* C3: a scan of the non-empty work list that places no Model ends the call
\* with the error, and only such a scan does; the error names the Models left
\* in the work list, each once, in ascending order of name, and no placed one.
C3_ErrorNamesStuckModels ==
    /\ [](pc = "raised" =>
            /\ skipped # <<>>
            /\ Len(error) = Len(skipped)
            /\ \A m \in AllModels :
                  Cardinality({i \in DOMAIN error :
                      error[i].object_name = m /\ error[i].app_label = AppLabel(m)})
                  = IF m \in Considered \ Range(model_list) THEN 1 ELSE 0
            /\ \A i \in DOMAIN skipped : skipped[i].model \in Considered \ Range(model_list)
            /\ \A i, j \in DOMAIN error :
                  i < j => NameRank(error[i].object_name) <= NameRank(error[j].object_name))
    /\ [][pc = "sort" => ((pc' = "raised") <=> (model_list' = model_list))]_vars
    /\ [][pc = "raised" => pc' = "raised"]_vars

\* an error that follows placed Models and whose names are not in the order
\* in which the Models were skipped
C3_Witness ==
    /\ pc = "raised"
    /\ model_list # <<>>
    /\ Len(error) >= 2
    /\ \E i \in DOMAIN error : error[i].object_name # skipped[i].model

\* C4 as claimed: the error reports every stuck Model together with its unmet
\* dependencies.
C4_ErrorReportsUnmetDependencies ==
    pc = "raised" =>
        \A i \in DOMAIN skipped :
            \E j \in DOMAIN error :
                /\ error[j].object_name = skipped[i].model
                /\ "unmet" \in DOMAIN error[j]
                /\ error[j].unmet = Unmet(skipped[i].model)

\* C4 as amended: every stuck Model has unmet dependencies, and the error
\* reports it by its app label and object name alone.
C4_ErrorReportsLabelsOnly ==
    pc = "raised" =>
        \A i \in DOMAIN skipped :
            /\ Unmet(skipped[i].model) # {}
            /\ \E j \in DOMAIN error :
                  error[j] = [app_label |-> AppLabel(skipped[i].model),
                              object_name |-> skipped[i].model]

\* an error for Models stuck on each other
C4_Witness ==
    /\ pc = "raised"
    /\ Len(skipped) >= 2
    /\ \E i \in DOMAIN skipped :
          /\ Unmet(skipped[i].model) # {}
          /\ skipped[i].model \notin Unmet(skipped[i].model)

(***************************************************************************)
(* Vocabulary of the export's properties.                                  *)
(***************************************************************************)
SameLetter(a, b) ==
    \/ a = b
    \/ \E i \in DOMAIN UpperCase : {a, b} = {UpperCase[i], LowerCase[i]}

SameNameIgnoringCase(x, y) ==
    /\ Len(x) = Len(y)
    /\ \A i \in DOMAIN x : SameLetter(x[i], y[i])

\* the Model is named, in whatever case, by the exclude option
ExcludedByName(m) ==
    /\ exclude_option.given
    /\ \E name \in Range(Split(exclude_option.value, ",")) :
          SameNameIgnoringCase(name, ClassName(m))

MustSkip(m) == ExcludedByName(m) \/ ~include_in_export[m] \/ proxy[m]

InDocument(m, pk) == \E i \in DOMAIN document : document[i] = [model |-> m, pk |-> pk]

\* C7: the document never holds an instance of a Model that is excluded by
\* name (in any case), flagged non-includable or a proxy, and the finished
\* document holds every stored instance of every other Model the resolver
\* returned.
C7_SkippedModelsOnly ==
    /\ \A i \in DOMAIN document :
          /\ document[i].model \in Range(model_list)
          /\ ~MustSkip(document[i].model)
          /\ document[i].pk \in store[document[i].model]
    /\ pc = "exported" =>
          \A m \in Range(model_list) : \A pk \in store[m] :
              ~MustSkip(m) => InDocument(m, pk)

\* a finished export that skipped a populated Model named in capitals by the
\* option, skipped a populated flagged or proxy Model, and emitted another
C7_Witness ==
    /\ pc = "exported"
    /\ document # <<>>
    /\ \E m \in SentryModels :
          /\ ExcludedByName(m)
          /\ exclude_option.value # Lower(exclude_option.value)
          /\ store[m] # {}
    /\ \E m \in SentryModels :
          /\ ~ExcludedByName(m)
          /\ ~include_in_export[m] \/ proxy[m]
          /\ store[m] # {}

\* C8: the document lists the instances Model by Model in the resolver's
\* order and by ascending primary key within a Model, so an instance of a
\* Model B that a Model A has a derived edge to precedes every instance of A.
C8_DocumentOrder ==
    pc \in {"returned", "exported"} =>
        /\ \A i, j \in DOMAIN document :
              i < j =>
                  \/ Position(document[i].model) < Position(document[j].model)
                  \/ /\ document[i].model = document[j].model
                     /\ document[i].pk < document[j].pk
        /\ \A i, j \in DOMAIN document :
              document[j].model \in EdgesOf(document[i].model) \ {document[i].model}
                  => j < i

\* a finished document with several instances of a Model placed after the
\* instances of a Model it refers to and that was discovered after it
C8_Witness ==
    /\ pc = "exported"
    /\ \E i, j \in DOMAIN document :
          /\ document[j].model \in EdgesOf(document[i].model)
          /\ IndexOf(Discovered, document[i].model) < IndexOf(Discovered, document[j].model)
          /\ j < i
    /\ \E i, j \in DOMAIN document :
          i < j /\ document[i].model = document[j].model

(***************************************************************************)
(* Vocabulary of the import's properties.                                  *)
(***************************************************************************)
\* the entry is one import_ saves: well formed and of an app not excluded
IsSaved(entry) == entry.well_formed /\ AppLabel(entry.model) \notin EXCLUDED_APPS

\* the keys the document gives to instances of m
ImportedKeys(m) == {src[i].pk : i \in {j \in DOMAIN src : IsSaved(src[j]) /\ src[j].model = m}}

\* reading src[offset] raises: the entry is malformed, or saving it breaks
\* the unique constraint
RaisesAt(i) ==
    \/ ~src[i].well_formed
    \/ IsSaved(src[i]) /\ Violates(txn, src[i])

CreatedOf(m) == {c \in created : c.model = m}

\* C5: the committed database changes only by the commit of the whole
\* document; when reading or saving an entry raises, the import ends with that
\* error and the database is what it was before the import began, whatever
\* entries were saved before.
C5_AllOrNothing ==
    /\ [](created = {} =>
            /\ pc = "saving" => db = db_before
            /\ pc = "failed" => db = db_before /\ exception # "none"
            /\ db # db_before =>
                  /\ pc \in {"committed", "imported"}
                  /\ exception = "none"
                  /\ \A i \in DOMAIN src :
                        /\ src[i].well_formed
                        /\ IsSaved(src[i]) => \E r \in db[src[i].model] : r.pk = src[i].pk)
    /\ [][(pc = "saving" /\ offset <= Len(src) /\ RaisesAt(offset)) =>
             (pc' = "failed" /\ exception' # "none" /\ db' = db_before)]_vars

\* an import that failed with an IntegrityError on its second entry after it
\* had saved a first entry that the destination did not hold
C5_Witness ==
    /\ pc = "failed"
    /\ exception = "IntegrityError"
    /\ offset = 2
    /\ IsSaved(src[1])
    /\ [pk |-> src[1].pk, slug |-> src[1].slug] \notin db_before[src[1].model]
    /\ db = db_before

\* C6: the sequences are reset by the step that follows a commit and by no
\* other; an import that ended with an exception leaves every sequence as it
\* was; after the reset the sequence of every registered model is at the
\* greatest key of its table, and an instance created later gets a key that
\* no imported instance has.
C6_SequenceResetAfterCommit ==
    /\ [](/\ was_reset => exception = "none" /\ pc = "imported"
          /\ pc = "imported" => was_reset
          /\ pc = "failed" =>
                \A m \in AllModels :
                    sequences[m] = sequences_before[m] + Cardinality(CreatedOf(m))
          /\ pc \in {"import", "saving", "committed"} => sequences = sequences_before
          /\ pc = "imported" /\ created = {} =>
                \A m \in AllModels : sequences[m] = MaxOf({r.pk : r \in db[m]})
          /\ pc = "imported" =>
                \A c \in created : c.pk \notin ImportedKeys(c.model))
    /\ [][(was_reset' /\ ~was_reset) => pc = "committed"]_vars
    /\ [][pc = "committed" => was_reset']_vars

\* after a successful import an instance was created whose key, without the
\* reset, would have been an imported key
C6_Witness ==
    /\ pc = "imported"
    /\ \E c \in created :
          /\ c.inserted
          /\ sequences_before[c.model] + 1 \in ImportedKeys(c.model)

(***************************************************************************)
(* Vocabulary of the comparators' properties.                              *)
(***************************************************************************)
Owned == {cmp.fields[i].name : i \in DOMAIN cmp.fields}

IsList(field) == \E i \in DOMAIN cmp.fields : cmp.fields[i].name = field /\ cmp.fields[i].is_list

\* the findings whose reason refers to the field
FindingsAbout(field) == {i \in DOMAIN findings : field \in Range(findings[i].reason)}

OneSided(field) == Has(left, field) # Has(right, field)

\* the keys a scrub of the side must hold: one per owned field present
KeysOf(side) == {ScrubKey(cmp.kind, f) : f \in {g \in Owned : Has(side, g)}}

IsObfuscatedString(str) ==
    \E i \in 1..(Len(str) - 2) : SubSeq(str, i, i + 2) = Ellipsis

\* the record holds, for each owned field present on the side, a sequence of
\* obfuscated strings: one for a scalar, one per entry for a list
WellFormedRecord(side) ==
    /\ DOMAIN side.scrubbed = KeysOf(side)
    /\ \A f \in Owned : Has(side, f) =>
          LET stored == side.scrubbed[ScrubKey(cmp.kind, f)]
          IN /\ DOMAIN stored = 1..Len(stored)
             /\ Len(stored) = IF IsList(f) THEN Len(side.fields[f]) ELSE 1
             /\ \A i \in DOMAIN stored : IsObfuscatedString(stored[i])

\* C9: after existence(id, left, right), every owned field present on both
\* sides or absent on both has no Finding; every owned field present on
\* exactly one side has exactly one Finding, with on = id, kind = the
\* comparator's identifier, and a reason that contains the field name and
\* names the side on which the field is missing (and not the other side).
C9_ExistenceFindings ==
    last_call = "existence" =>
        /\ \A f \in Owned :
              /\ ~OneSided(f) => FindingsAbout(f) = {}
              /\ OneSided(f) =>
                    /\ Cardinality(FindingsAbout(f)) = 1
                    /\ \A i \in FindingsAbout(f) :
                          /\ findings[i].on = id
                          /\ findings[i].kind = cmp.kind
                          /\ (IF Has(left, f) THEN "right" ELSE "left")
                                \in Range(findings[i].reason)
                          /\ (IF Has(left, f) THEN "left" ELSE "right")
                                \notin Range(findings[i].reason)
        /\ Len(findings) = Cardinality({f \in Owned : OneSided(f)})

\* existence has answered for a pair where one owned field is only on the
\* left and another is on both sides
C9_Witness ==
    /\ last_call = "existence"
    /\ \E f, g \in Owned :
          /\ Has(left, f) /\ ~Has(right, f)
          /\ Has(left, g) /\ Has(right, g)
    /\ Len(findings) = 1
    /\ "right" \in Range(findings[1].reason)

\* C10: after one or more scrub calls on a pair, each side's scrub record
\* equals the record after the first call and holds one entry per owned
\* field present, under the key "<ComparatorKind>::<field>", whose value is a
\* sequence of obfuscated strings even for a scalar field; the snapshot's
\* identity and every value under "fields" are as first given; and this holds
\* whatever calls of compare or existence came before.
C10_ScrubIdempotentAdditive ==
    scrubs >= 1 =>
        /\ <<left.scrubbed, right.scrubbed>> = first_scrub
        /\ WellFormedRecord(left)
        /\ WellFormedRecord(right)
        /\ left.fields = sides_before[1].fields
        /\ right.fields = sides_before[2].fields
        /\ <<left.model, left.pk>> = <<sides_before[1].model, sides_before[1].pk>>
        /\ <<right.model, right.pk>> = <<sides_before[2].model, sides_before[2].pk>>

\* scrub ran twice or more, after both compare and existence, on a pair that
\* has a scalar and a list field on both sides
C10_Witness ==
    /\ scrubs >= 2
    /\ called = {"existence", "compare"}
    /\ \E f, g \in Owned : IsList(f) /\ ~IsList(g) /\ Has(left, f) /\ Has(left, g)
    /\ left.scrubbed # EmptyMap

(***************************************************************************)
(* The edges of multi-valued references (lines 97-107).                    *)
(***************************************************************************)
\* the fields of a that contribute a dependency on b, the self-reference
\* test and the Actor test of lines 88-93 applied, whatever kind but "m2m_through"
OtherFieldsGive(a, b) ==
    \E f \in fields :
        /\ f.model = a
        /\ f.rel_model = b
        /\ f.kind # "m2m_through"
        /\ a # b
        /\ ~(f.kind = "fk" /\ a = Actor /\ b \in {Team, User})

\* the edges inside the considered set once the multi-valued references
\* carried by an explicit join entity are left out
EdgesWithoutJoin(a) == {b \in Considered : OtherFieldsGive(a, b)}

RECURSIVE ReachableWithoutJoin(_, _)
ReachableWithoutJoin(S, n) ==
    IF n = 0 THEN S
    ELSE ReachableWithoutJoin(S \cup UNION {EdgesWithoutJoin(x) : x \in S}, n - 1)

AcyclicWithoutJoin ==
    \A m \in Considered :
        m \notin ReachableWithoutJoin(EdgesWithoutJoin(m), Cardinality(Considered))

\* C11 as claimed: a multi-valued reference field of A targeting B gives the
\* dependency A->B only when the relation is implicit; a field whose relation
\* is carried by an explicit join entity gives no dependency, so every
\* dependency collected for A comes from another field of A, and the cycle
\* error is raised only for schemas that have a cycle without such fields.
C11_ExplicitJoinNoEdge ==
    /\ pc = "sort" =>
          \A i \in DOMAIN model_dependencies :
              \A b \in model_dependencies[i].deps :
                  OtherFieldsGive(model_dependencies[i].model, b)
    /\ pc = "raised" => ~AcyclicWithoutJoin

\* the cycle error raised for a schema whose only loop closes through a
\* multi-valued reference carried by an explicit join entity
C11_Witness ==
    /\ pc = "raised"
    /\ AcyclicWithoutJoin
    /\ \E f \in fields :
          /\ f.kind = "m2m_through"
          /\ f.model # f.rel_model
          /\ ~OtherFieldsGive(f.model, f.rel_model)
          /\ \E i \in DOMAIN skipped :
                skipped[i].model = f.model /\ f.rel_model \in skipped[i].deps

(***************************************************************************)
(* The suppressed edges (lines 76-95).                                     *)
(***************************************************************************)
\* the hand-declared exception list
SuppressedEdges == {<<Actor, Team>>, <<Actor, User>>}

DirectReference(a, b) == [model |-> a, kind |-> "fk", rel_model |-> b] \in fields

\* a declaration of a makes b a dependency: a natural-key dependency, or a
\* reference to another Model that is not a direct reference along a
\* suppressed edge
Contributes(a, b) ==
    \E f \in fields :
        /\ f.model = a
        /\ f.rel_model = b
        /\ f.kind # "natural" => a # b
        /\ ~(f.kind = "fk" /\ <<a, b>> \in SuppressedEdges)

\* Team and User reference Actor, Actor references Team and User
ActorScenario ==
    /\ DirectReference(Team, Actor)
    /\ DirectReference(User, Actor)
    /\ DirectReference(Actor, Team)
    /\ DirectReference(Actor, User)

\* two considered Models that depend on each other
MutualReference ==
    \E a, b \in Considered : a # b /\ Contributes(a, b) /\ Contributes(b, a)

\* the schema's dependencies have a loop
RECURSIVE ReachableByContributes(_, _)
ReachableByContributes(S, n) ==
    IF n = 0 THEN S
    ELSE ReachableByContributes(
            S \cup {b \in Considered : \E a \in S : Contributes(a, b)}, n - 1)

Looping ==
    \E m \in Considered :
        m \in ReachableByContributes({b \in Considered : Contributes(m, b)},
                                     Cardinality(Considered))

\* C12: the dependencies collected for a Model are its natural-key
\* dependencies and the targets of its references, except a reference to
\* itself and except the direct references Actor->Team and Actor->User, and
\* nothing else is left out; so a schema in which Team
\* and User reference Actor while Actor references Team and User, with no
\* loop among the remaining dependencies, is not answered with the cycle
\* error and returns Actor before Team and User, while Models that depend on
\* each other through any other reference never get an order returned.
C12_OnlyActorEdgesSuppressed ==
    /\ \A i \in DOMAIN model_dependencies :
          \A b \in AllModels :
              b \in model_dependencies[i].deps <=> Contributes(model_dependencies[i].model, b)
    /\ (ActorScenario /\ ~Looping) => pc # "raised"
    /\ (ActorScenario /\ pc = "returned") =>
          /\ Position(Actor) > 0
          /\ Position(Actor) < Position(Team)
          /\ Position(Actor) < Position(User)
    /\ MutualReference => pc # "returned"
    /\ (pc = "raised") => Looping

\* an order returned for the schema in which Team and User reference Actor,
\* Actor references Team, User and itself, and Actor was discovered last
C12_Witness ==
    /\ pc = "returned"
    /\ ActorScenario
    /\ DirectReference(Actor, Actor)
    /\ Discovered[Len(Discovered)] = Actor
    /\ model_list[1] = Actor

\* the cycle error for Team and User referencing each other
OtherMutualReferenceRaised ==
    /\ pc = "raised"
    /\ DirectReference(Team, User)
    /\ DirectReference(User, Team)
    /\ ActorScenario

====
